---- MODULE Spec2Model ----
(***************************************************************************)
(* Model of the screenshot scraper (class ScreenshotScraper and the        *)
(* exported singleton screenshotScraper).                                  *)
(*                                                                         *)
(* The scraper owns one field, this.browser.  Every public method is an    *)
(* async function; each caller is a chain of awaits.  A step of the model  *)
(* is one turn of a caller: the settlement of the library call it awaits   *)
(* and the code that runs on it, up to and including the next library      *)
(* call.  What the code reads before that call (this.browser for newPage,  *)
(* Date.now() for the file name) is read in the turn that makes the call.  *)
(* An await of initBrowser or of a scrape ends a turn too: the code after  *)
(* it, which reads this.browser, runs in a later turn, and other callers'  *)
(* turns may come in between.                                              *)
(* All awaited library calls (chromium.launch, browser.newPage, page.goto, *)
(* ...) may reject; the environment injects at most MaxFaults rejections   *)
(* per run.                                                                *)
(*                                                                         *)
(* Strings are sequences.  Texts read from the page are sequences of       *)
(* one-character strings; fixed pieces of template literals                *)
(* ("pararius-screenshot-", ".png", ...) are kept as one element each.     *)
(***************************************************************************)
EXTENDS Integers, Sequences, FiniteSets, TLC

(* ----------------------------- bounds ---------------------------------- *)
\* listing elements a source's page holds at most
MaxElems == 2
\* Date.now() returns a value in 0..MaxClock
MaxClock == 1
\* rejections the environment injects in one run
MaxFaults == 1
\* length of the price texts enumerated in SpecPrice
MaxLen == 2
\* calls the caller of Spec makes on the scraper in one run
MaxCalls == 2

(* ------------------------- program constants --------------------------- *)
ParariusCap == 20
FundaCap == 15
ParariusListedSpan == 3
FundaListedSpan == 4

Callers == {1, 2}
Sources == {"Pararius", "Funda"}

(* ------------------------------ strings -------------------------------- *)
Digits == <<"0", "1", "2", "3", "4", "5", "6", "7", "8", "9">>

IsDigit(c) == \E k \in 1..10 : Digits[k] = c

DigitVal(c) == (CHOOSE k \in 1..10 : Digits[k] = c) - 1

\* the characters \s and String.prototype.trim take as white space
\* (WhiteSpace and LineTerminator of ECMAScript); the ones that are not
\* ASCII are written as their code point
WhiteSpace ==
    {" ", "\t", "\n", "\r", "\f", "U+000B", "U+00A0", "U+1680", "U+2000",
     "U+2001", "U+2002", "U+2003", "U+2004", "U+2005", "U+2006", "U+2007",
     "U+2008", "U+2009", "U+200A", "U+2028", "U+2029", "U+202F", "U+205F",
     "U+3000", "U+FEFF"}

IsSpace(c) == c \in WhiteSpace

\* String(n) for a non-negative integer, as in a template literal
RECURSIVE Dec(_)
Dec(n) == IF n < 10 THEN <<Digits[n + 1]>>
          ELSE Dec(n \div 10) \o <<Digits[(n % 10) + 1]>>

Min(a, b) == IF a < b THEN a ELSE b

\* String.prototype.trim
RECURSIVE TrimStart(_)
TrimStart(s) == IF s # <<>> /\ IsSpace(Head(s)) THEN TrimStart(Tail(s)) ELSE s

RECURSIVE TrimEnd(_)
TrimEnd(s) == IF s # <<>> /\ IsSpace(s[Len(s)])
              THEN TrimEnd(SubSeq(s, 1, Len(s) - 1)) ELSE s

Trim(s) == TrimEnd(TrimStart(s))

\* end of the run of digits that starts at position q (q holds a digit)
RECURSIVE DigitRunEnd(_, _)
DigitRunEnd(s, q) == IF q < Len(s) /\ IsDigit(s[q + 1])
                     THEN DigitRunEnd(s, q + 1) ELSE q

\* end of the run of white space starting at q, as the position after it
RECURSIVE SkipSpace(_, _)
SkipSpace(s, q) == IF q <= Len(s) /\ IsSpace(s[q])
                   THEN SkipSpace(s, q + 1) ELSE q

\* String.prototype.replace(sep, ''): the first occurrence only
RECURSIVE RemoveFirst(_, _)
RemoveFirst(s, sep) == IF s = <<>> THEN <<>>
                       ELSE IF Head(s) = sep THEN Tail(s)
                       ELSE <<Head(s)>> \o RemoveFirst(Tail(s), sep)

\* Number.parseInt on a text that starts with a digit: its leading digits
RECURSIVE ParseDigits(_, _)
ParseDigits(s, acc) == IF s # <<>> /\ IsDigit(Head(s))
                       THEN ParseDigits(Tail(s), acc * 10 + DigitVal(Head(s)))
                       ELSE acc

ParseInt(s) == ParseDigits(s, 0)

NoMatch == <<"nomatch">>

\* capture group 1 of  /€?\s*(\d+(?:SEP\d+)?)/  tried at start position st
\* (ws = FALSE drops the \s*).  The optional parts are greedy; giving one
\* back never helps, because the group has to start with a digit.
GroupAt(s, st, sep, ws) ==
    LET q1 == IF s[st] = "€" THEN st + 1 ELSE st
        q2 == IF ws THEN SkipSpace(s, q1) ELSE q1
    IN  IF q2 > Len(s) \/ ~IsDigit(s[q2]) THEN NoMatch
        ELSE LET e1 == DigitRunEnd(s, q2)
                 e2 == IF e1 + 2 <= Len(s) /\ s[e1 + 1] = sep /\ IsDigit(s[e1 + 2])
                       THEN DigitRunEnd(s, e1 + 2) ELSE e1
             IN  SubSeq(s, q2, e2)

\* String.prototype.match without the g flag: the leftmost start that matches
RECURSIVE MatchFrom(_, _, _, _)
MatchFrom(s, st, sep, ws) ==
    IF st > Len(s) THEN NoMatch
    ELSE IF GroupAt(s, st, sep, ws) # NoMatch THEN GroupAt(s, st, sep, ws)
    ELSE MatchFrom(s, st + 1, sep, ws)

\* line 101 without replace(',', ''): parseInt of the group as matched
\* (a faulty variant)
ParsePriceParariusNoReplace(priceText) ==
    LET g == MatchFrom(priceText, 1, ",", FALSE)
    IN  IF g = NoMatch THEN 0 ELSE ParseInt(g)

\* lines 100-101: priceText.match(/€?(\d+(?:,\d+)?)/), replace(',', ''), parseInt
ParsePricePararius(priceText) ==
    LET g == MatchFrom(priceText, 1, ",", FALSE)
    IN  IF g = NoMatch THEN 0 ELSE ParseInt(RemoveFirst(g, ","))

\* lines 221-222: priceText.match(/€?\s*(\d+(?:\.\d+)?)/), replace('.', ''), parseInt
ParsePriceFunda(priceText) ==
    LET g == MatchFrom(priceText, 1, ".", TRUE)
    IN  IF g = NoMatch THEN 0 ELSE ParseInt(RemoveFirst(g, "."))

ParsePrice(source, priceText) ==
    IF source = "Pararius" THEN ParsePricePararius(priceText)
    ELSE ParsePriceFunda(priceText)

(* ------------------------------- state --------------------------------- *)
VARIABLES
    browser,    \* this.browser: 0 for null, else the id of the browser it holds
    live,       \* ids of the browsers launched and not closed
    launched,   \* number of browsers launched so far (the next id is launched+1)
    pages,      \* the open pages, each [owner |-> caller, br |-> browser id]
    clock,      \* the last value Date.now() returned
    dir,        \* public/property-images exists
    files,      \* file names written under public/property-images
    injected,   \* rejections injected so far
    doms,       \* the lists of listing elements a loaded page can hold in this run
    mayFail,    \* the steps whose await the environment may reject in this run
    randoms,    \* the values Math.random() can return in this run, see RandDen
    st          \* st[p]: the frame of caller p (position, locals, result)

vars == <<browser, live, launched, pages, clock, dir, files, injected, doms,
          mayFail, randoms, st>>

(* --------------------------- listing elements -------------------------- *)
\* "€1,250", "€ 1.250", and a text without digits
PriceComma == <<"€", "1", ",", "2", "5", "0">>
PriceDot == <<"€", " ", "1", ".", "2", "5", "0">>
PriceNone == <<"x">>

\* textContent() of a node without text content
NullText == <<"null">>

\* the nodes whose text lines 94-97 / 216-219 read, besides title and price
OtherNodes == {"location", "size", "rooms", "link"}

\* what element.$(selector) and textContent() give for one listing element:
\* whether the title and price nodes exist and their texts, which of
\* OtherNodes exist, whether the img node exists
Elem(titleFound, titleText, priceFound, priceText, others, img) ==
    [titleFound |-> titleFound, titleText |-> titleText,
     priceFound |-> priceFound, priceText |-> priceText,
     others |-> others, img |-> img]

\* a listing without a title node, with a price and an image
ElemBare == Elem(FALSE, <<>>, TRUE, PriceComma, {}, TRUE)

Elements == {ElemBare}

RECURSIVE SeqsUpTo(_, _)
SeqsUpTo(S, n) ==
    IF n = 0 THEN {<<>>}
    ELSE LET shorter == SeqsUpTo(S, n - 1)
         IN  shorter \cup {Append(q, x) : q \in shorter, x \in S}

\* pages of up to MaxElems listings
Doms == SeqsUpTo(Elements, MaxElems)

\* the price texts of SpecPrice: every text of up to MaxLen characters over
\* PriceAlphabet, and the two full prices
PriceAlphabet == {"€", " ", "\n", ",", ".", "1", "x"}
PriceTexts == SeqsUpTo(PriceAlphabet, MaxLen) \cup {PriceComma, PriceDot, PriceNone}

\* the title texts of SpecPrice: padded with blanks, padded with other white
\* space, white space only, none
TitleTexts == {<<" ", "A", " ">>, <<"\t", "A", "\n">>, <<"\n">>, NullText}

\* pages of one listing with an image: a title and a price text, or a title
\* and no price node
PriceDoms ==
    {<<Elem(TRUE, <<" ", "A", " ">>, TRUE, t, {}, TRUE)>> : t \in PriceTexts}
        \cup {<<Elem(TRUE, t, TRUE, PriceComma, {"link"}, TRUE)>> : t \in TitleTexts}
        \cup {<<Elem(TRUE, <<" ", "A", " ">>, FALSE, <<>>, OtherNodes, FALSE)>>}

(* ----------------------------- the record ------------------------------ *)
SourceKey(source) == IF source = "Pararius" THEN "pararius" ELSE "funda"

Cap(source) == IF source = "Pararius" THEN ParariusCap ELSE FundaCap

\* lines 92 / 214: the value of `title` when the title node is missing
TitleFallback(source, i) ==
    IF source = "Pararius" THEN <<"Property ">> \o Dec(i + 1)
    ELSE <<"Funda Property ">> \o Dec(i + 1)

\* lines 127 / 247: the default used when title?.trim() is empty or undefined
TitleDefault(source, i) ==
    IF source = "Pararius" THEN <<"Pararius Property ">> \o Dec(i + 1)
    ELSE <<"Funda Property ">> \o Dec(i + 1)

\* lines 92+127 / 214+247
MakeTitle(source, el, i) ==
    LET title == IF el.titleFound THEN el.titleText ELSE TitleFallback(source, i)
    IN  IF title # NullText /\ Trim(title) # <<>> THEN Trim(title)
        ELSE TitleDefault(source, i)

\* lines 93+100-101 / 215+221-222
MakePrice(source, el) ==
    LET priceText == IF el.priceFound THEN el.priceText ELSE <<"0">>
    IN  IF priceText = NullText THEN 0 ELSE ParsePrice(source, priceText)

\* the id without the element index (a faulty variant)
MakeIdNoIndex(source, ts, i) ==
    <<SourceKey(source), "-screenshot-">> \o Dec(ts)

\* lines 126 / 246: `${source}-screenshot-${Date.now()}-${i}`
MakeId(source, ts, i) ==
    <<SourceKey(source), "-screenshot-">> \o Dec(ts) \o <<"-">> \o Dec(i)

\* lines 108 / 229: `${source}-${i + 1}-${Date.now()}.png`
ShotFilename(source, i, ts) ==
    <<SourceKey(source), "-">> \o Dec(i + 1) \o <<"-">> \o Dec(ts) \o <<".png">>

\* lines 118 / 238
ShotPath(filename) == <<"/property-images/">> \o filename

\* Math.random() is in [0, 1); r in 0..RandDen-1 stands for a value in
\* [r / RandDen, (r + 1) / RandDen), on which both floors below are constant
RandDen == ParariusListedSpan * FundaListedSpan

Randoms == 0..(RandDen - 1)

\* lines 134 / 254: Math.floor(Math.random() * span)
ListedDays(source, r) ==
    (r * (IF source = "Pararius" THEN ParariusListedSpan ELSE FundaListedSpan))
        \div RandDen

\* lines 125-149 / 245-269, the fields the properties below read
MakeProperty(source, el, i, ts, r, screenshotPath) ==
    [id |-> MakeId(source, ts, i),
     title |-> MakeTitle(source, el, i),
     price |-> MakePrice(source, el),
     source |-> source,
     listedDays |-> ListedDays(source, r),
     image |-> screenshotPath,
     images |-> IF screenshotPath # <<>> THEN <<screenshotPath>> ELSE <<>>]

\* line 306: Array.prototype.sort with (a, b) => a.listedDays - b.listedDays
\* (stable): insertion after the last element that is not larger
RECURSIVE InsertSorted(_, _)
InsertSorted(sorted, x) ==
    IF sorted = <<>> THEN <<x>>
    ELSE IF sorted[Len(sorted)].listedDays <= x.listedDays THEN Append(sorted, x)
    ELSE Append(InsertSorted(SubSeq(sorted, 1, Len(sorted) - 1), x),
                sorted[Len(sorted)])

RECURSIVE SortByListedDays(_)
SortByListedDays(q) ==
    IF q = <<>> THEN <<>>
    ELSE InsertSorted(SortByListedDays(SubSeq(q, 1, Len(q) - 1)), q[Len(q)])

(* ------------------------------ frames --------------------------------- *)
\* In the operators below s is the frame of a caller and b is the value of
\* this.browser in the turn that runs the code.
NoPend == [kind |-> "none", val |-> <<>>]

\* the seven element.$ lookups of lines 83-89 / 206-212
Lookups == 7

\* the nodes whose text lines 92-97 / 214-219 await, in the order of the code:
\* the ones the lookups have found
Reads(el) ==
    (IF el.titleFound THEN <<"title">> ELSE <<>>)
        \o (IF el.priceFound THEN <<"price">> ELSE <<>>)
        \o SelectSeq(<<"location", "size", "rooms", "link">>,
                     LAMBDA n : n \in el.others)

\* a caller that is not inside a call and may make `left` more calls
Idle(left) ==
    [call |-> "none", pc |-> "idle", cont |-> "-", src |-> "-", target |-> 0,
     dom |-> <<>>, elems |-> <<>>, i |-> 0, k |-> 0, shotName |-> <<>>,
     properties |-> <<>>, allProperties |-> <<>>,
     pend |-> NoPend, closing |-> 0, outcome |-> "-", result |-> <<>>,
     faults |-> {}, sessions |-> {}, left |-> left]

\* a rejected await of step `step` (element idx, or -1) is noted in the frame
Fault(s, step, idx) == [s EXCEPT !.faults = @ \cup {<<step, s.src, idx>>}]

\* the call ends: the promise is fulfilled with val ("returned") or rejected.
\* closing stays in the frame: the browser the call has called close() on
Finish(s, how, val) ==
    [s EXCEPT !.pc = "done", !.outcome = how, !.result = val,
              !.cont = "-", !.src = "-", !.target = 0,
              !.dom = <<>>, !.elems = <<>>, !.i = 0, !.k = 0, !.shotName = <<>>,
              !.properties = <<>>, !.allProperties = <<>>, !.pend = NoPend]

\* a source's scrape is left: its locals are gone
Leave(s) ==
    [s EXCEPT !.target = 0, !.dom = <<>>, !.elems = <<>>, !.i = 0, !.k = 0,
              !.shotName = <<>>, !.properties = <<>>]

\* initBrowser returns.  A caller inside the class awaits it (lines 44, 173,
\* 293) and goes on in a later turn; the top-level caller's promise is
\* fulfilled
InitReturn(s) ==
    IF s.cont = "top" THEN Finish(s, "returned", <<>>)
    ELSE [s EXCEPT !.pc = "initDone"]

\* lines 13-15: initBrowser tests this.browser: it calls chromium.launch, or
\* it returns
InitBrowser(s, b) ==
    IF b = 0 THEN [s EXCEPT !.pc = "launch"] ELSE InitReturn(s)

\* lines 43-44 / 172-173: entry of a source's scrape, which awaits initBrowser
BeginScrape(s, source, b) ==
    InitBrowser([Leave(s) EXCEPT !.src = source, !.cont = "scrape",
                                 !.pend = NoPend], b)

\* closeBrowser returns to its caller (top level, or the finally of 311-313)
CloseReturn(s) ==
    IF s.call = "scrapeAll" /\ s.pend.kind = "return"
    THEN Finish(s, "returned", s.pend.val)
    ELSE IF s.call = "scrapeAll" THEN Finish(s, "threw", <<>>)
    ELSE Finish(s, "returned", <<>>)

\* lines 28-30: closeBrowser tests this.browser: it calls close() on it, or
\* it returns
CloseBrowser(s, b) ==
    IF b # 0 THEN [s EXCEPT !.pc = "closing", !.closing = b]
    ELSE CloseReturn(s)

\* browser.close() rejected: the exception leaves closeBrowser and the finally
CloseThrow(s) == Finish(s, "threw", <<>>)

\* an exception leaves a source's scrape: the promise the scrape returned is
\* rejected.  scrapeAll, which awaits it (lines 298, 302), goes on in a later
\* turn
ScrapeThrow(s) ==
    IF s.call = "scrapeAll"
    THEN [Leave(s) EXCEPT !.pc = "scrapeDone",
                          !.pend = [kind |-> "throw", val |-> <<>>]]
    ELSE Finish(s, "threw", <<>>)

\* a source's scrape returns val: the promise the scrape returned is
\* fulfilled.  scrapeAll, which awaits it (lines 298, 302), goes on in a later
\* turn
ScrapeReturn(s, val) ==
    IF s.call = "scrapeAll"
    THEN [Leave(s) EXCEPT !.pc = "scrapeDone",
                          !.pend = [kind |-> "return", val |-> val]]
    ELSE Finish(s, "returned", val)

\* lines 298-313: scrapeAll goes on after a source's scrape.  After
\* Pararius's list Funda's scrape is entered; after Funda's the list is
\* sorted and returned through the finally; an exception reaches the finally.
\* The finally calls closeBrowser
AfterScrapeStep(s, b) ==
    IF s.pend.kind = "throw" THEN CloseBrowser(s, b)
    ELSE IF s.src = "Pararius"
    THEN BeginScrape([s EXCEPT !.allProperties = @ \o s.pend.val], "Funda", b)
    ELSE CloseBrowser(
             [s EXCEPT !.allProperties = SortByListedDays(@ \o s.pend.val),
                       !.pend = [kind |-> "return",
                                 val |-> SortByListedDays(s.allProperties \o s.pend.val)]],
             b)

\* lines 45 / 174 and 298: the code after `await this.initBrowser()`.  In a
\* scrape this.browser!.newPage() is called, outside the try: with
\* this.browser null the TypeError leaves the scrape.  In scrapeAll
\* Pararius's scrape is entered
AfterInitStep(s, b) ==
    IF s.cont = "all" THEN BeginScrape(s, "Pararius", b)
    ELSE IF b = 0 THEN ScrapeThrow(s)
    ELSE [s EXCEPT !.pc = "newPage", !.target = b]

\* the outer catch without the finally of lines 167-169 (a faulty variant)
CatchNoFinally(s) == ScrapeReturn(s, <<>>)

\* the outer catch rethrows instead of returning [] (a faulty variant)
CatchRethrow(s) ==
    [s EXCEPT !.pc = "pageClose", !.pend = [kind |-> "throw", val |-> <<>>]]

\* lines 164-169 / 282-287: the outer catch returns [], then the finally
\* calls page.close()
Catch(s) ==
    [s EXCEPT !.pc = "pageClose", !.pend = [kind |-> "return", val |-> <<>>]]

\* lines 78 / 201 and 161-162 / 279-280: the loop test.  In the loop the
\* first lookup of element i is called; after the loop the scrape returns
\* properties through the finally
NextElem(s) ==
    IF s.i < Min(Len(s.elems), Cap(s.src))
    THEN [s EXCEPT !.pc = "lookup", !.k = 1, !.shotName = <<>>]
    ELSE [s EXCEPT !.pc = "pageClose", !.k = 0, !.shotName = <<>>,
                   !.pend = [kind |-> "return", val |-> s.properties]]

\* the per-element failure reaches the outer catch (a faulty variant)
ElementCatchOuter(s) == Catch(s)

\* lines 156-158 / 274-276: the per-element catch, then i++
ElementCatch(s) == NextElem([s EXCEPT !.i = @ + 1])

\* chromium.launch rejected: lines 44 / 173 / 293 are outside every try
InitThrow(s) ==
    CASE s.cont = "top" -> Finish(s, "threw", <<>>)
      [] s.cont = "scrape" -> ScrapeThrow(s)
      [] s.cont = "all" -> Finish(s, "threw", <<>>)

ScrapeOps == {"scrapePararius", "scrapeFunda", "scrapeAll"}
Ops == {"initBrowser", "closeBrowser"} \cup ScrapeOps

\* a caller with `left` calls left enters op, which runs up to its first
\* library call or to the await of an initBrowser that has returned
Begin(op, left, b) ==
    LET s == [Idle(left - 1) EXCEPT !.call = op]
    IN  CASE op = "initBrowser" -> InitBrowser([s EXCEPT !.cont = "top"], b)
          [] op = "closeBrowser" -> CloseBrowser(s, b)
          [] op = "scrapePararius" -> BeginScrape(s, "Pararius", b)
          [] op = "scrapeFunda" -> BeginScrape(s, "Funda", b)
          [] op = "scrapeAll" -> InitBrowser([s EXCEPT !.cont = "all"], b)

\* lines 125-154 / 245-272: the record is built with the time ts and the
\* random value r, and pushed; page.waitForTimeout is called
Push(s, ts, r, screenshotPath) ==
    [s EXCEPT !.pc = "delay", !.shotName = <<>>,
              !.properties = Append(@,
                  MakeProperty(s.src, s.elems[s.i + 1], s.i, ts, r, screenshotPath))]

\* the screenshot path is set although the capture failed (a faulty variant)
ShotFailedKeepPath(filename) == ShotPath(filename)

\* lines 120-122 / 240-242: the screenshot's own catch leaves screenshotPath ''
ShotFailed(filename) == <<>>

PageOpen(p) == \E pg \in pages : pg.owner = p

\* the values Date.now() can return next
Now == {clock} \cup (IF clock < MaxClock THEN {clock + 1} ELSE {})

\* the environment rejects the await of `step`
Inject(step) == step \in mayFail /\ injected < MaxFaults /\ injected' = injected + 1

\* an await on caller p's page rejects: always once the page is gone
PageFault(p, step) == IF PageOpen(p) THEN Inject(step) ELSE injected' = injected

Steps == {"launch", "newPage", "config", "goto", "wait", "query", "mkdir",
          "extract", "shot", "delay", "pageClose", "browserClose"}

(* ------------------------------ actions -------------------------------- *)
\* a caller invokes one of the scraper's methods; the method runs up to its
\* first await
StartCall(p) ==
    /\ st[p].pc \in {"idle", "done"}
    /\ st[p].left > 0
    /\ \E op \in Ops : st' = [st EXCEPT ![p] = Begin(op, st[p].left, browser)]
    /\ UNCHANGED <<browser, live, launched, pages, clock, dir, files, injected,
                   doms, mayFail, randoms>>

\* lines 15-24: chromium.launch settles; this.browser = the new browser, and
\* initBrowser returns
Launch(p) ==
    /\ st[p].pc = "launch"
    /\ \/ /\ browser' = launched + 1
          /\ live' = live \cup {launched + 1}
          /\ launched' = launched + 1
          /\ st' = [st EXCEPT ![p] = InitReturn(st[p])]
          /\ UNCHANGED injected
       \/ /\ Inject("launch")
          /\ st' = [st EXCEPT ![p] = InitThrow(Fault(st[p], "launch", -1))]
          /\ UNCHANGED <<browser, live, launched>>
    /\ UNCHANGED <<pages, clock, dir, files, doms, mayFail, randoms>>

\* lines 44-45 / 173-174 and 293-298: the caller that awaited initBrowser
\* goes on, in a turn after the one in which initBrowser returned
AfterInit(p) ==
    /\ st[p].pc = "initDone"
    /\ st' = [st EXCEPT ![p] = AfterInitStep(st[p], browser)]
    /\ UNCHANGED <<browser, live, launched, pages, clock, dir, files, injected,
                   doms, mayFail, randoms>>

\* lines 298-312: scrapeAll goes on after the scrape it awaited, in a turn
\* after the one in which the scrape returned or threw
AfterScrape(p) ==
    /\ st[p].pc = "scrapeDone"
    /\ st' = [st EXCEPT ![p] = AfterScrapeStep(st[p], browser)]
    /\ UNCHANGED <<browser, live, launched, pages, clock, dir, files, injected,
                   doms, mayFail, randoms>>

\* lines 45 / 174: newPage(), called on the browser this.browser held when
\* line 45 / 174 ran, settles; it is outside the try.  It rejects when that
\* browser has been closed
NewPage(p) ==
    /\ st[p].pc = "newPage"
    /\ \/ /\ st[p].target \in live
          /\ pages' = pages \cup {[owner |-> p, br |-> st[p].target]}
          /\ st' = [st EXCEPT ![p] = [st[p] EXCEPT !.pc = "viewport",
                                          !.sessions = @ \cup {st[p].target}]]
          /\ UNCHANGED injected
       \/ /\ IF st[p].target \in live THEN Inject("newPage") ELSE injected' = injected
          /\ st' = [st EXCEPT ![p] = ScrapeThrow(Fault(st[p], "newPage", -1))]
          /\ UNCHANGED pages
    /\ UNCHANGED <<browser, live, launched, clock, dir, files, doms, mayFail, randoms>>

\* lines 52 / 180: page.setViewportSize settles; Pararius calls
\* page.setUserAgent next, Funda page.goto
SetViewportSize(p) ==
    /\ st[p].pc = "viewport"
    /\ \/ /\ PageOpen(p)
          /\ st' = [st EXCEPT ![p] = [st[p] EXCEPT !.pc =
                       IF st[p].src = "Pararius" THEN "userAgent" ELSE "goto"]]
          /\ UNCHANGED injected
       \/ /\ PageFault(p, "config")
          /\ st' = [st EXCEPT ![p] = Catch(Fault(st[p], "config", -1))]
    /\ UNCHANGED <<browser, live, launched, pages, clock, dir, files, doms, mayFail, randoms>>

\* line 53: page.setUserAgent settles (Pararius only)
SetUserAgent(p) ==
    /\ st[p].pc = "userAgent"
    /\ \/ /\ PageOpen(p)
          /\ st' = [st EXCEPT ![p] = [st[p] EXCEPT !.pc = "goto"]]
          /\ UNCHANGED injected
       \/ /\ PageFault(p, "config")
          /\ st' = [st EXCEPT ![p] = Catch(Fault(st[p], "config", -1))]
    /\ UNCHANGED <<browser, live, launched, pages, clock, dir, files, doms, mayFail, randoms>>

\* lines 56-59 / 181-184: page.goto settles
Goto(p) ==
    /\ st[p].pc = "goto"
    /\ \/ /\ PageOpen(p)
          /\ st' = [st EXCEPT ![p] = [st[p] EXCEPT !.pc = "cookie"]]
          /\ UNCHANGED injected
       \/ /\ PageFault(p, "goto")
          /\ st' = [st EXCEPT ![p] = Catch(Fault(st[p], "goto", -1))]
    /\ UNCHANGED <<browser, live, launched, pages, clock, dir, files, doms, mayFail, randoms>>

\* lines 62-66 / 187-191: the cookie click settles; its rejection is swallowed
Cookie(p) ==
    /\ st[p].pc = "cookie"
    /\ st' = [st EXCEPT ![p] = [st[p] EXCEPT !.pc = "wait"]]
    /\ UNCHANGED <<browser, live, launched, pages, clock, dir, files, injected,
                   doms, mayFail, randoms>>

\* lines 69 / 194: waitForSelector settles.  dom is what the loaded page
\* holds; the wait times out when it holds no listing element
Wait(p) ==
    /\ st[p].pc = "wait"
    /\ \/ /\ PageOpen(p)
          /\ \E dom \in doms :
                /\ dom # <<>>
                /\ st' = [st EXCEPT ![p] = [st[p] EXCEPT !.pc = "query", !.dom = dom]]
          /\ UNCHANGED injected
       \/ /\ <<>> \in doms
          /\ st' = [st EXCEPT ![p] = Catch(Fault(st[p], "wait", -1))]
          /\ UNCHANGED injected
       \/ /\ PageFault(p, "wait")
          /\ st' = [st EXCEPT ![p] = Catch(Fault(st[p], "wait", -1))]
    /\ UNCHANGED <<browser, live, launched, pages, clock, dir, files, doms, mayFail, randoms>>

\* lines 72-76 / 196-199: page.$$ settles; ensureDirectoryExists calls
\* fs.access (line 37)
Query(p) ==
    /\ st[p].pc = "query"
    /\ \/ /\ PageOpen(p)
          /\ st' = [st EXCEPT ![p] =
                       [st[p] EXCEPT !.elems = st[p].dom, !.i = 0, !.pc = "access"]]
          /\ UNCHANGED injected
       \/ /\ PageFault(p, "query")
          /\ st' = [st EXCEPT ![p] = Catch(Fault(st[p], "query", -1))]
    /\ UNCHANGED <<browser, live, launched, pages, clock, dir, files, doms, mayFail, randoms>>

\* lines 36-39: fs.access settles: it resolves when the directory exists and
\* the loop begins, else the catch calls fs.mkdir
Access(p) ==
    /\ st[p].pc = "access"
    /\ st' = [st EXCEPT ![p] = IF dir THEN NextElem(st[p])
                               ELSE [st[p] EXCEPT !.pc = "mkdir"]]
    /\ UNCHANGED <<browser, live, launched, pages, clock, dir, files, injected,
                   doms, mayFail, randoms>>

\* line 39: fs.mkdir(dirPath, {recursive: true}) settles; its rejection
\* leaves ensureDirectoryExists and reaches the outer catch
Mkdir(p) ==
    /\ st[p].pc = "mkdir"
    /\ \/ /\ dir' = TRUE
          /\ st' = [st EXCEPT ![p] = NextElem(st[p])]
          /\ UNCHANGED injected
       \/ /\ Inject("mkdir")
          /\ st' = [st EXCEPT ![p] = Catch(Fault(st[p], "mkdir", -1))]
          /\ UNCHANGED dir
    /\ UNCHANGED <<browser, live, launched, pages, clock, files, doms, mayFail, randoms>>

\* lines 125-154 / 245-272 for caller p in frame s: Date.now() and
\* Math.random() are read, the record is pushed
Assemble(p, s, screenshotPath) ==
    \E ts \in Now, r \in randoms :
        /\ clock' = ts
        /\ st' = [st EXCEPT ![p] = Push(s, ts, r, screenshotPath)]

\* lines 100-113 / 221-233 for caller p in frame s, once the texts are read:
\* with an img node the file name is built from Date.now() and the
\* screenshot is called, without one the record is assembled
AfterReads(p, s) ==
    IF s.elems[s.i + 1].img
    THEN \E ts \in Now :
            /\ clock' = ts
            /\ st' = [st EXCEPT ![p] =
                         [s EXCEPT !.pc = "shot", !.k = 0,
                                   !.shotName = ShotFilename(s.src, s.i, ts)]]
    ELSE Assemble(p, [s EXCEPT !.k = 0], <<>>)

\* lines 83-89 / 206-212: the k-th element.$ lookup settles; the next lookup
\* is called, or after the last the first text read that is due
Lookup(p) ==
    /\ st[p].pc = "lookup"
    /\ \/ /\ PageOpen(p)
          /\ UNCHANGED injected
          /\ IF st[p].k < Lookups
             THEN /\ st' = [st EXCEPT ![p] = [st[p] EXCEPT !.k = @ + 1]]
                  /\ UNCHANGED clock
             ELSE IF Reads(st[p].elems[st[p].i + 1]) # <<>>
             THEN /\ st' = [st EXCEPT ![p] = [st[p] EXCEPT !.pc = "read", !.k = 1]]
                  /\ UNCHANGED clock
             ELSE AfterReads(p, st[p])
       \/ /\ PageFault(p, "extract")
          /\ st' = [st EXCEPT ![p] = ElementCatch(Fault(st[p], "extract", st[p].i))]
          /\ UNCHANGED clock
    /\ UNCHANGED <<browser, live, launched, pages, dir, files, doms, mayFail, randoms>>

\* lines 92-97 / 214-219: the k-th awaited textContent / getAttribute settles
Read(p) ==
    /\ st[p].pc = "read"
    /\ \/ /\ PageOpen(p)
          /\ UNCHANGED injected
          /\ IF st[p].k < Len(Reads(st[p].elems[st[p].i + 1]))
             THEN /\ st' = [st EXCEPT ![p] = [st[p] EXCEPT !.k = @ + 1]]
                  /\ UNCHANGED clock
             ELSE AfterReads(p, st[p])
       \/ /\ PageFault(p, "extract")
          /\ st' = [st EXCEPT ![p] = ElementCatch(Fault(st[p], "extract", st[p].i))]
          /\ UNCHANGED clock
    /\ UNCHANGED <<browser, live, launched, pages, dir, files, doms, mayFail, randoms>>

\* lines 113-123 / 233-243: the screenshot settles: the file is written under
\* the name built at line 108 / 229 and the path is set, or the rejection is
\* caught; then the record is assembled
Shot(p) ==
    /\ st[p].pc = "shot"
    /\ \/ /\ PageOpen(p)
          /\ files' = files \cup {st[p].shotName}
          /\ Assemble(p, st[p], ShotPath(st[p].shotName))
          /\ UNCHANGED injected
       \/ /\ PageFault(p, "shot")
          /\ Assemble(p, Fault(st[p], "shot", st[p].i), ShotFailed(st[p].shotName))
          /\ UNCHANGED files
    /\ UNCHANGED <<browser, live, launched, pages, dir, doms, mayFail, randoms>>

\* lines 154 / 272: page.waitForTimeout(500), inside the per-element try,
\* settles
Delay(p) ==
    /\ st[p].pc = "delay"
    /\ \/ /\ PageOpen(p)
          /\ st' = [st EXCEPT ![p] = NextElem([st[p] EXCEPT !.i = @ + 1])]
          /\ UNCHANGED injected
       \/ /\ PageFault(p, "delay")
          /\ st' = [st EXCEPT ![p] = ElementCatch(Fault(st[p], "delay", st[p].i))]
    /\ UNCHANGED <<browser, live, launched, pages, clock, dir, files, doms, mayFail, randoms>>

\* lines 167-169 / 285-287: finally { await page.close() } settles.  The
\* page is gone once close() has been called, also when the call rejects.
PageClose(p) ==
    /\ st[p].pc = "pageClose"
    /\ pages' = {pg \in pages : pg.owner # p}
    /\ \/ /\ st' = [st EXCEPT ![p] =
                       IF st[p].pend.kind = "return"
                       THEN ScrapeReturn(st[p], st[p].pend.val)
                       ELSE ScrapeThrow(st[p])]
          /\ UNCHANGED injected
       \/ /\ Inject("pageClose")
          /\ st' = [st EXCEPT ![p] =
                       ScrapeThrow(Fault(st[p], "pageClose", -1))]
    /\ UNCHANGED <<browser, live, launched, clock, dir, files, doms, mayFail, randoms>>

\* lines 30-31: browser.close() settles; this.browser = null when it
\* resolved.  The browser and its pages are gone in both outcomes.
Closing(p) ==
    /\ st[p].pc = "closing"
    /\ live' = live \ {st[p].closing}
    /\ pages' = {pg \in pages : pg.br # st[p].closing}
    /\ \/ /\ browser' = 0
          /\ st' = [st EXCEPT ![p] = CloseReturn(st[p])]
          /\ UNCHANGED injected
       \/ /\ Inject("browserClose")
          /\ st' = [st EXCEPT ![p] = CloseThrow(Fault(st[p], "browserClose", -1))]
          /\ UNCHANGED browser
    /\ UNCHANGED <<launched, clock, dir, files, doms, mayFail, randoms>>

(* --------------------------- specifications ---------------------------- *)
\* one caller, who makes MaxCalls calls in any order; every step may be
\* rejected; pages hold up to MaxElems listings
Init ==
    /\ browser = 0 /\ live = {} /\ launched = 0 /\ pages = {}
    /\ clock = 0 /\ dir = FALSE /\ files = {} /\ injected = 0
    /\ doms = Doms
    /\ mayFail = Steps
    /\ randoms = Randoms
    /\ st = [p \in Callers |-> Idle(IF p = 1 THEN MaxCalls ELSE 0)]

Next ==
    \E p \in Callers :
        \/ StartCall(p)
        \/ Launch(p)
        \/ AfterInit(p)
        \/ AfterScrape(p)
        \/ NewPage(p)
        \/ SetViewportSize(p)
        \/ SetUserAgent(p)
        \/ Goto(p)
        \/ Cookie(p)
        \/ Wait(p)
        \/ Query(p)
        \/ Access(p)
        \/ Mkdir(p)
        \/ Lookup(p)
        \/ Read(p)
        \/ Shot(p)
        \/ Delay(p)
        \/ PageClose(p)
        \/ Closing(p)

Spec == Init /\ [][Next]_vars

\* one caller, one call, no injected rejection, the clock returns one value;
\* the page holds one listing whose title and price texts range over
\* TitleTexts and PriceTexts
InitPrice ==
    /\ browser = 0 /\ live = {} /\ launched = 0 /\ pages = {}
    /\ clock = MaxClock /\ dir = FALSE /\ files = {} /\ injected = 0
    /\ doms = PriceDoms
    /\ mayFail = {}
    /\ randoms = Randoms
    /\ st = [p \in Callers |-> Idle(IF p = 1 THEN 1 ELSE 0)]

SpecPrice == InitPrice /\ [][Next]_vars

\* two callers share the exported singleton, one call each; their calls
\* overlap at the awaits.  No rejection, one listing per page, and the clock
\* returns one value
InitConc ==
    /\ browser = 0 /\ live = {} /\ launched = 0 /\ pages = {}
    /\ clock = MaxClock /\ dir = FALSE /\ files = {} /\ injected = 0
    /\ doms = {<<ElemBare>>}
    /\ mayFail = {}
    /\ randoms = Randoms
    /\ st = [p \in Callers |-> Idle(1)]

SpecConc == InitConc /\ [][Next]_vars

(* ----------------------------- properties ------------------------------ *)
\* the positions at which a caller awaits a call on its page or, with the
\* page open, on the file system
PageSteps == {"viewport", "userAgent", "goto", "cookie", "wait", "query",
              "access", "mkdir", "lookup", "read", "shot", "delay", "pageClose"}

FaultSteps(p) == {f[1] : f \in st[p].faults}

Done(p, op) == st[p].pc = "done" /\ st[p].call = op

\* the loop of caller p's current source has ended by its test (no outer
\* catch has run: those note their rejection with element index -1)
LoopOver(p) ==
    /\ st[p].pc = "pageClose" /\ st[p].elems # <<>>
    /\ ~\E f \in st[p].faults : f[2] = st[p].src /\ f[3] = -1

\* caller p is inside the element loop of a source, or has just left it
InLoop(p) == st[p].pc \in {"lookup", "read", "shot", "delay"} \/ LoopOver(p)

\* the element index an id ends with: the digits after its last "-"
RECURSIVE LastDash(_, _)
LastDash(id, k) == IF k = 0 \/ id[k] = "-" THEN k ELSE LastDash(id, k - 1)

IdIndex(id) == ParseInt(SubSeq(id, LastDash(id, Len(id)) + 1, Len(id)))

\* the records in q built for element idx
RecordsOf(q, idx) == {k \in 1..Len(q) : IdIndex(q[k].id) = idx}

DistinctIds(q) ==
    \A j, k \in 1..Len(q) : (q[j].id # <<>>) /\ (j # k => q[j].id # q[k].id)

NoDigit(text) == \A k \in 1..Len(text) : ~IsDigit(text[k])

\* the price text lines 93 / 215 give for the element caller p is working on
PriceTextOf(p) ==
    LET el == st[p].elems[st[p].i + 1]
    IN  IF el.priceFound THEN el.priceText ELSE <<"0">>

LastRecord(p) == st[p].properties[Len(st[p].properties)]

\* C1: once scrapeAll has completed, by returning a list or by throwing,
\* this.browser is null, no launched browser is left open and no page is
\* open, whatever happened to the sources; and a closeBrowser() called once
\* the session was closed is a no-op: it never calls close() on a browser
\* that close() was already called on.
C1_ClosedAfterScrapeAll ==
    \A p \in Callers :
        /\ Done(p, "scrapeAll") => (browser = 0 /\ live = {} /\ pages = {})
        /\ (st[p].call = "closeBrowser" /\ st[p].pc = "closing")
               => st[p].closing \in live

\* C2: when page.goto is the only await that rejects, a source's scrape
\* returns the empty list and leaves the browser open with this.browser set;
\* inside scrapeAll a rejected goto for Pararius is followed by Funda's scrape
\* on the same browser, and scrapeAll returns one Funda record per listing.
C2_NavigationFailureIsolated ==
    \A p \in Callers :
        /\ \A source \in Sources :
              (Done(p, IF source = "Pararius" THEN "scrapePararius" ELSE "scrapeFunda")
                  /\ st[p].faults = {<<"goto", source, -1>>})
               => /\ st[p].outcome = "returned"
                  /\ st[p].result = <<>>
                  /\ browser \in live
                  /\ st[p].sessions = {browser}
        /\ (st[p].call = "scrapeAll" /\ st[p].src = "Funda" /\ st[p].pc = "pageClose"
                /\ st[p].faults = {<<"goto", "Pararius", -1>>})
               => /\ st[p].pend.kind = "return"
                  /\ Len(st[p].pend.val) = Len(st[p].elems)
                  /\ Len(st[p].elems) > 0
                  /\ \A k \in 1..Len(st[p].pend.val) :
                         st[p].pend.val[k].source = "Funda"
                  /\ st[p].sessions = {browser}
                  /\ browser \in live
        /\ (Done(p, "scrapeAll") /\ st[p].faults = {<<"goto", "Pararius", -1>>})
               => /\ st[p].outcome = "returned"
                  /\ Len(st[p].result) > 0
                  /\ \A k \in 1..Len(st[p].result) : st[p].result[k].source = "Funda"
                  /\ Cardinality(st[p].sessions) = 1

\* C2 witness: scrapeAll has returned Funda's records after Pararius's goto
\* was rejected
C2_Witness ==
    \E p \in Callers :
        /\ Done(p, "scrapeAll")
        /\ st[p].faults = {<<"goto", "Pararius", -1>>}
        /\ Len(st[p].result) = MaxElems

\* C3: at most one page is open at any time; the page a scrape opened is open
\* exactly while the scrape is between newPage and page.close(), so none is
\* open once the scrape has returned [] or records or has thrown; and the
\* browser the page was opened on is still open, and still this.browser,
\* while the scrape runs and when a stand-alone scrape has finished.
C3_PageClosedOnEveryExit ==
    /\ Cardinality(pages) <= 1
    /\ \A p \in Callers :
        /\ st[p].pc \in PageSteps
               => (pages = {[owner |-> p, br |-> browser]} /\ browser \in live)
        /\ st[p].pc \notin PageSteps => ~PageOpen(p)
        /\ ((Done(p, "scrapePararius") \/ Done(p, "scrapeFunda"))
                /\ st[p].sessions # {})
               => (browser \in live /\ st[p].sessions = {browser})
        /\ (st[p].call = "scrapeAll" /\ st[p].src = "Funda"
                /\ st[p].pc \in {"launch", "initDone", "newPage"}
                /\ st[p].sessions # {})
               => (browser \in live /\ st[p].sessions = {browser})

\* C3 witness: a stand-alone scrape opened a page, the error of page.close()
\* left the call, and the page is closed while the browser is open
C3_Witness ==
    \E p \in Callers :
        /\ Done(p, "scrapePararius")
        /\ st[p].outcome = "threw"
        /\ st[p].sessions # {}
        /\ pages = {}
        /\ browser \in live

\* C4: scrapeAll throws only when chromium.launch was rejected; after the
\* rejection of any other await it returns a list.
C4_OnlyLaunchFailureSurfaces ==
    \A p \in Callers :
        (Done(p, "scrapeAll") /\ "launch" \notin FaultSteps(p))
            => st[p].outcome = "returned"

\* C5: when the screenshot of element i was rejected, the element's processing
\* goes on, its record is pushed, and the record's image is '' and its images
\* []; and a record's image is non-empty only if it is the path of a file the
\* screenshot has written, and then images holds exactly that path.
C5_ScreenshotFailureKeepsRecord ==
    \A p \in Callers :
        /\ InLoop(p) =>
              \A idx \in 0..(Len(st[p].elems) - 1) :
                  (<<"shot", st[p].src, idx>> \in st[p].faults
                      /\ (idx < st[p].i \/ (idx = st[p].i /\ st[p].pc = "delay")))
                   => /\ Cardinality(RecordsOf(st[p].properties, idx)) = 1
                      /\ \A k \in RecordsOf(st[p].properties, idx) :
                             /\ st[p].properties[k].image = <<>>
                             /\ st[p].properties[k].images = <<>>
        /\ \A q \in {st[p].properties, st[p].allProperties, st[p].result} :
              \A k \in 1..Len(q) :
                  /\ q[k].image # <<>> =>
                         (\E f \in files : q[k].image = <<"/property-images/">> \o f)
                  /\ q[k].images = IF q[k].image = <<>> THEN <<>> ELSE <<q[k].image>>

\* C5 witness: the record of an element whose screenshot was rejected is in
\* the list scrapeAll returned
C5_Witness ==
    \E p \in Callers :
        /\ Done(p, "scrapeAll")
        /\ \E f \in st[p].faults : f[1] = "shot"
        /\ \E k \in 1..Len(st[p].result) : st[p].result[k].image = <<>>
        /\ \E k \in 1..Len(st[p].result) : st[p].result[k].image # <<>>

\* C6: the record of an element i without a title node has the title
\* "Pararius Property {i+1}" resp. "Funda Property {i+1}".
C6_DefaultTitle ==
    \A p \in Callers :
        (st[p].pc = "delay" /\ ~st[p].elems[st[p].i + 1].titleFound)
            => LastRecord(p).title =
                   (IF st[p].src = "Pararius" THEN <<"Pararius Property ">>
                    ELSE <<"Funda Property ">>) \o Dec(st[p].i + 1)

\* C7 as stated: in both sources "€1,250" parses to 1250 and a price text
\* without digits parses to 0.
C7_PriceParsingBothSources ==
    \A p \in Callers :
        st[p].pc = "delay"
            => /\ PriceTextOf(p) = PriceComma => LastRecord(p).price = 1250
               /\ NoDigit(PriceTextOf(p)) => LastRecord(p).price = 0

\* C7 amended: in Pararius's scrape "€1,250" parses to 1250; in Funda's
\* scrape, whose pattern takes "." as the separator, "€1,250" parses to 1 and
\* "€ 1.250" parses to 1250; in both a price text without digits parses to 0.
C7_PriceParsingPerSource ==
    \A p \in Callers :
        st[p].pc = "delay"
            => /\ (st[p].src = "Pararius" /\ PriceTextOf(p) = PriceComma)
                      => LastRecord(p).price = 1250
               /\ (st[p].src = "Funda" /\ PriceTextOf(p) = PriceComma)
                      => LastRecord(p).price = 1
               /\ (st[p].src = "Funda" /\ PriceTextOf(p) = PriceDot)
                      => LastRecord(p).price = 1250
               /\ NoDigit(PriceTextOf(p)) => LastRecord(p).price = 0

\* C7 witness: Funda's scrape has built the record of a listing priced "€1,250"
C7_Witness ==
    \E p \in Callers :
        /\ st[p].pc = "delay" /\ st[p].src = "Funda"
        /\ PriceTextOf(p) = PriceComma
        /\ LastRecord(p).price = 1

\* C8: the records of one call have non-empty, pairwise different ids, both
\* while they are collected and in the list the call returns.
C8_UniqueIds ==
    \A p \in Callers :
        /\ DistinctIds(st[p].allProperties \o st[p].properties)
        /\ DistinctIds(st[p].result)

\* C8 witness: scrapeAll returned records of both sources, two of them of the
\* same source with the same timestamp
C8_Witness ==
    \E p \in Callers :
        /\ Done(p, "scrapeAll")
        /\ Len(st[p].result) = 2 * MaxElems
        /\ \E j, k \in 1..Len(st[p].result) :
               /\ j # k
               /\ st[p].result[j].source = st[p].result[k].source
               /\ st[p].result[j].id[3] = st[p].result[k].id[3]

\* C9 as stated: after the loop the list holds one record for each element
\* none of whose steps (lookups, text reads, the delay) was rejected, and none
\* for the others.
C9_ThrowingElementLeavesNoRecord ==
    \A p \in Callers :
        LoopOver(p)
            => \A idx \in 0..(Len(st[p].elems) - 1) :
                   Cardinality(RecordsOf(st[p].properties, idx)) =
                       IF \/ <<"extract", st[p].src, idx>> \in st[p].faults
                          \/ <<"delay", st[p].src, idx>> \in st[p].faults
                       THEN 0 ELSE 1

\* C9 amended: a rejection while element i is processed is caught inside the
\* loop and the loop goes on to the last element below the cap; the list
\* holds, in element order, one record for each element whose lookups and text
\* reads were not rejected and none for the others; a record pushed before a
\* rejected delay stays in the list.
C9_ElementIsolation ==
    \A p \in Callers :
        InLoop(p) =>
            LET upTo == IF st[p].pc = "delay" THEN st[p].i + 1 ELSE st[p].i
                kept == {idx \in 0..(upTo - 1) :
                            <<"extract", st[p].src, idx>> \notin st[p].faults}
            IN  /\ \A idx \in 0..(Len(st[p].elems) - 1) :
                       Cardinality(RecordsOf(st[p].properties, idx)) =
                           IF idx \in kept THEN 1 ELSE 0
                /\ Len(st[p].properties) = Cardinality(kept)
                /\ \A j, k \in 1..Len(st[p].properties) :
                       j < k => IdIndex(st[p].properties[j].id)
                                    < IdIndex(st[p].properties[k].id)
                /\ st[p].pc = "pageClose"
                       => /\ st[p].i = Min(Len(st[p].elems), Cap(st[p].src))
                          /\ st[p].pend = [kind |-> "return", val |-> st[p].properties]

\* C9 witness: the loop is over; the first element's lookups were rejected,
\* the loop went on, and only the last element has a record
C9_Witness ==
    \E p \in Callers :
        /\ LoopOver(p) /\ Len(st[p].elems) = MaxElems
        /\ <<"extract", st[p].src, 0>> \in st[p].faults
        /\ Len(st[p].properties) = MaxElems - 1
        /\ IdIndex(LastRecord(p).id) = MaxElems - 1

\* C10: for every interleaving of the callers' calls at most one launched
\* browser is open, and none is open when no call is running and a scrapeAll
\* was the last call to finish its closeBrowser.
C10_OneBrowser ==
    /\ Cardinality(live) <= 1
    /\ ((\A p \in Callers : st[p].pc \in {"idle", "done"})
            /\ (\E p \in Callers : Done(p, "scrapeAll"))
            /\ browser = 0)
           => live = {}

====
